---------------------------- MODULE Spec2Model ----------------------------
(***************************************************************************)
(* One run of the Streamlit script ArticleGenerator1.py: the date window,  *)
(* the aggregation loop over the uploaded files, the planner and writer    *)
(* kickoffs, the report and the download button.                           *)
(*                                                                         *)
(* Text is modelled as sequences of one-character strings, so that         *)
(* name.split("_")[0] and strptime(..., "%Y-%m-%d") are computed, not      *)
(* assumed.  A datetime.date is modelled by its proleptic Gregorian        *)
(* ordinal (date.toordinal()), on which <= is the order of dates.          *)
(***************************************************************************)
EXTENDS Integers, Sequences, FiniteSets, TLC

VARIABLES
    uploaded_files,     \* st.file_uploader(...): the upload list, in upload order
    include_all_docs,   \* st.checkbox("Include all documents")
    today,              \* datetime.now().date() of this run
    start_date,         \* lower end of the window
    end_date,           \* upper end of the window
    openai_api_key,     \* st.text_input("Enter your OpenAI API Key")
    idx,                \* i of the enumerate(uploaded_files, start=1) loop
    combined_content,   \* the string built by the loop, as a sequence of lines
    ui,                 \* what the page has shown so far, in order
    calls,              \* requests issued to the generation collaborator, in order
    outstanding,        \* kickoff() calls that have not returned yet
    result,             \* crew.kickoff() return value
    final_report,       \* writer_crew.kickoff() return value
    pc                  \* position of the script

vars == <<uploaded_files, include_all_docs, today, start_date, end_date,
          openai_api_key, idx, combined_content, ui, calls, outstanding,
          result, final_report, pc>>

inputs == <<uploaded_files, include_all_docs, today, start_date, end_date,
            openai_api_key>>

----------------------------------------------------------------------------
(* Bounds of the model *)

MaxFiles == 2

----------------------------------------------------------------------------
(* Characters and numbers *)

Digits == {"0", "1", "2", "3", "4", "5", "6", "7", "8", "9"}

DigitVal(c) ==
    CASE c = "0" -> 0 [] c = "1" -> 1 [] c = "2" -> 2 [] c = "3" -> 3
      [] c = "4" -> 4 [] c = "5" -> 5 [] c = "6" -> 6 [] c = "7" -> 7
      [] c = "8" -> 8 [] c = "9" -> 9

AllDigits(s) == \A k \in 1..Len(s) : s[k] \in Digits

RECURSIVE NumVal(_)
NumVal(s) ==
    IF s = <<>> THEN 0
    ELSE 10 * NumVal(SubSeq(s, 1, Len(s) - 1)) + DigitVal(s[Len(s)])

----------------------------------------------------------------------------
(* datetime.date: validity of a (year, month, day) and its ordinal *)

IsLeap(y) == (y % 4 = 0) /\ ((y % 100 # 0) \/ (y % 400 = 0))

DaysInMonth(y, m) ==
    CASE m \in {1, 3, 5, 7, 8, 10, 12} -> 31
      [] m \in {4, 6, 9, 11} -> 30
      [] m = 2 -> IF IsLeap(y) THEN 29 ELSE 28

RECURSIVE DaysBeforeMonth(_, _)
DaysBeforeMonth(y, m) ==
    IF m = 1 THEN 0 ELSE DaysBeforeMonth(y, m - 1) + DaysInMonth(y, m - 1)

DaysBeforeYear(y) ==
    (y - 1) * 365 + ((y - 1) \div 4) - ((y - 1) \div 100) + ((y - 1) \div 400)

ToOrdinal(y, m, d) == DaysBeforeYear(y) + DaysBeforeMonth(y, m) + d

\* The value standing for "strptime raised ValueError" (no date has ordinal 0).
NoDate == 0

----------------------------------------------------------------------------
(* uploaded_file.name.split("_")[0] *)

FirstUnderscore(name) ==
    IF \E k \in 1..Len(name) : name[k] = "_"
    THEN CHOOSE k \in 1..Len(name) :
            /\ name[k] = "_"
            /\ \A j \in 1..(k - 1) : name[j] # "_"
    ELSE Len(name) + 1

FileDateStr(name) == SubSeq(name, 1, FirstUnderscore(name) - 1)

----------------------------------------------------------------------------
(* datetime.strptime(s, "%Y-%m-%d").date()                                 *)
(* %Y is four digits; %m is 1[0-2]|0[1-9]|[1-9]; %d is                     *)
(* 3[01]|[12]\d|0[1-9]|[1-9]; the whole string must match; the date must   *)
(* exist.  The result is the date's ordinal, or NoDate for ValueError.     *)

Dashes(s) == {k \in 1..Len(s) : s[k] = "-"}

MonthField(f) == Len(f) \in {1, 2} /\ AllDigits(f) /\ NumVal(f) \in 1..12

DayField(f) == Len(f) \in {1, 2} /\ AllDigits(f) /\ NumVal(f) \in 1..31

YearField(f) == Len(f) = 4 /\ AllDigits(f)

Strptime(s) ==
    IF Cardinality(Dashes(s)) # 2 THEN NoDate
    ELSE LET p1 == CHOOSE k \in Dashes(s) : \A j \in Dashes(s) : k <= j
             p2 == CHOOSE k \in Dashes(s) : \A j \in Dashes(s) : j <= k
             yf == SubSeq(s, 1, p1 - 1)
             mf == SubSeq(s, p1 + 1, p2 - 1)
             df == SubSeq(s, p2 + 1, Len(s))
         IN  IF ~(YearField(yf) /\ MonthField(mf) /\ DayField(df)) THEN NoDate
             ELSE LET y == NumVal(yf)
                      m == NumVal(mf)
                      d == NumVal(df)
                  IN  IF y >= 1 /\ d <= DaysInMonth(y, m)
                      THEN ToOrdinal(y, m, d)
                      ELSE NoDate

\* start_date <= file_date <= end_date
InRange(lo, d, hi) == lo <= d /\ d <= hi

----------------------------------------------------------------------------
(* The inputs of a run *)

Date_2024_02_29 == <<"2", "0", "2", "4", "-", "0", "2", "-", "2", "9">>
Date_2024_03_01 == <<"2", "0", "2", "4", "-", "0", "3", "-", "0", "1">>
Date_2024_02_30 == <<"2", "0", "2", "4", "-", "0", "2", "-", "3", "0">>
Date_2025_01_01 == <<"2", "0", "2", "5", "-", "0", "1", "-", "0", "1">>
Date_1900_01_01 == <<"1", "9", "0", "0", "-", "0", "1", "-", "0", "1">>

\* Uploaded file names: two dates a day apart across the end of February, a
\* prefix that is no date, a date that does not exist, a date after the run
\* and a date more than a century before it.
FileNames ==
    { Date_2024_02_29 \o <<"_", "a">>,
      Date_2024_03_01 \o <<"_", "b">>,
      <<"n", "o", "t", "e", "s", "_", "c">>,
      Date_2024_02_30 \o <<"_", "d">>,
      Date_2025_01_01 \o <<"_", "e">>,
      Date_1900_01_01 \o <<"_", "f">> }

\* file_date of every name above, parsed once.
ParsedDates == [n \in FileNames |-> Strptime(FileDateStr(n))]

\* file_date = datetime.strptime(file_date_str, "%Y-%m-%d").date()
FileDate(file) == ParsedDates[file.name]

TextPlain == "text/plain"
WordDocx == "application/vnd.openxmlformats-officedocument.wordprocessingml.document"

\* uploaded_file.type: the uploader accepts type=["txt", "docx"].
MimeTypes == {TextPlain, WordDocx}

\* What a file holds: a readable text (here the letter that ends its name, so
\* that different names hold different texts) or bytes that cannot be read
\* (not UTF-8 for a text file, not a Word package for a docx).
Unreadable == "\\xff"

Body(name) == name[Len(name)]

Files ==
    UNION { { [name |-> n, type |-> t, data |-> d] :
                t \in MimeTypes, d \in {Body(n), Unreadable} } : n \in FileNames }

RECURSIVE SeqsUpTo(_, _)
SeqsUpTo(S, n) ==
    IF n = 0 THEN {<<>>}
    ELSE LET shorter == SeqsUpTo(S, n - 1)
         IN  shorter \cup {Append(q, x) : q \in {r \in shorter : Len(r) = n - 1}, x \in S}

\* datetime.now().date() of the run.
Todays == {ToOrdinal(2024, 6, 15)}

\* Dates the user can pick in the two st.date_input widgets.
PickableDates ==
    {ToOrdinal(2024, 2, 28), ToOrdinal(2024, 2, 29), ToOrdinal(2024, 3, 1)}

ApiKeys == {"", "sk-key"}

\* (datetime.now() - timedelta(days=365 * 100)).date()
IncludeAllStart(now) == now - 365 * 100

\* A plausible slip: the window is made to reach as far ahead as back.
IncludeAllEndAhead(now) == now + 365 * 100

\* datetime.now().date()
IncludeAllEnd(now) == now

----------------------------------------------------------------------------
(* Text extraction *)

\* uploaded_file.read().decode("utf-8") raises UnicodeDecodeError, and
\* DocxDocument(file) raises, exactly when the bytes cannot be read.
ExtractFails(file) == file.data = Unreadable

\* The text of a readable file: the decoded bytes, or the paragraphs of the
\* document joined by newlines.
FileContent(file) == file.data

----------------------------------------------------------------------------
(* The lines the loop appends for file i *)

BeginMarker(i, file) == [k |-> "begin", i |-> i, name |-> file.name, text |-> ""]

ContentLine(file) == [k |-> "content", i |-> 0, name |-> <<>>, text |-> FileContent(file)]

EndMarker(i, file) == [k |-> "end", i |-> i, name |-> file.name, text |-> ""]

Block(i, file) == <<BeginMarker(i, file), ContentLine(file), EndMarker(i, file)>>

----------------------------------------------------------------------------
(* Page output *)

InvalidDateWarning(file) == [kind |-> "warning_invalid_date", name |-> file.name]

NoEligibleWarning == [kind |-> "warning_no_eligible", name |-> <<>>]

SuccessMessage == [kind |-> "success", name |-> <<>>]

DownloadButton == [kind |-> "download_button", name |-> <<>>]

\* An exception that leaves the script: Streamlit stops the run and shows it.
ExceptionBox == [kind |-> "exception", name |-> <<>>]

----------------------------------------------------------------------------
Init ==
    /\ uploaded_files \in SeqsUpTo(Files, MaxFiles)
    /\ include_all_docs \in BOOLEAN
    /\ today \in Todays
    /\ IF include_all_docs
       THEN /\ start_date = IncludeAllStart(today)
            /\ end_date = IncludeAllEnd(today)
       ELSE /\ start_date \in PickableDates
            /\ end_date \in PickableDates
    /\ openai_api_key \in ApiKeys
    /\ idx = 1
    /\ combined_content = <<>>
    /\ ui = <<>>
    /\ calls = <<>>
    /\ outstanding = 0
    /\ result = "none"
    /\ final_report = "none"
    /\ pc = "aggregate"

----------------------------------------------------------------------------
(* The aggregation loop, one iteration per action *)

InLoop == pc = "aggregate" /\ idx <= Len(uploaded_files)

CurrentFile == uploaded_files[idx]

\* except ValueError: st.warning(...), and on to the next file
WarnAndContinue(file) ==
    /\ ui' = Append(ui, InvalidDateWarning(file))
    /\ idx' = idx + 1
    /\ UNCHANGED <<inputs, combined_content, calls, outstanding, result,
                   final_report, pc>>

\* An exception that no handler of the script catches.
Crash ==
    /\ ui' = Append(ui, ExceptionBox)
    /\ pc' = "crashed"

\* strptime raises ValueError: the file is skipped with a warning.
SkipInvalidDate ==
    /\ InLoop
    /\ FileDate(CurrentFile) = NoDate
    /\ WarnAndContinue(CurrentFile)

\* The date parses and lies outside the window: nothing is said or appended.
SkipOutOfRange ==
    /\ InLoop
    /\ FileDate(CurrentFile) # NoDate
    /\ ~InRange(start_date, FileDate(CurrentFile), end_date)
    /\ idx' = idx + 1
    /\ UNCHANGED <<inputs, combined_content, ui, calls, outstanding, result,
                   final_report, pc>>

ToExtract ==
    /\ InLoop
    /\ FileDate(CurrentFile) # NoDate
    /\ InRange(start_date, FileDate(CurrentFile), end_date)

\* A plausible slip: the newest block is put first.
PrependBlock(content, block) == block \o content

\* combined_content += ...
AppendBlock(content, block) == content \o block

\* The date lies in the window and the text is read: the block is appended.
IncludeFile ==
    /\ ToExtract
    /\ ~ExtractFails(CurrentFile)
    /\ combined_content' = AppendBlock(combined_content, Block(idx, CurrentFile))
    /\ idx' = idx + 1
    /\ UNCHANGED <<inputs, ui, calls, outstanding, result, final_report, pc>>

\* .decode("utf-8") raises UnicodeDecodeError, a subclass of ValueError: the
\* except clause of the date parse catches it.
TxtDecodeError ==
    /\ ToExtract
    /\ CurrentFile.type = TextPlain
    /\ ExtractFails(CurrentFile)
    /\ WarnAndContinue(CurrentFile)

\* read_docx raises a ValueError (python-docx: "file ... is not a Word file"):
\* caught by the same except clause.
DocxValueError ==
    /\ ToExtract
    /\ CurrentFile.type = WordDocx
    /\ ExtractFails(CurrentFile)
    /\ WarnAndContinue(CurrentFile)

\* read_docx raises anything else (BadZipFile, KeyError, an XML error): the
\* exception leaves the loop and the script.
DocxFault ==
    /\ ToExtract
    /\ CurrentFile.type = WordDocx
    /\ ExtractFails(CurrentFile)
    /\ Crash
    /\ UNCHANGED <<inputs, idx, combined_content, calls, outstanding, result,
                   final_report>>

----------------------------------------------------------------------------
(* After the loop: if combined_content: ... else: st.warning(...) *)

LoopDone == pc = "aggregate" /\ idx > Len(uploaded_files)

\* A plausible slip: the guard is left out and the pipeline always runs.
AlwaysTruthy(content) == TRUE

\* A Python string is true when it is not empty.
Truthy(content) == content # <<>>

EnterPipeline ==
    /\ LoopDone
    /\ Truthy(combined_content)
    /\ pc' = "plan"
    /\ UNCHANGED <<inputs, idx, combined_content, ui, calls, outstanding,
                   result, final_report>>

WarnNoEligible ==
    /\ LoopDone
    /\ ~Truthy(combined_content)
    /\ ui' = Append(ui, NoEligibleWarning)
    /\ pc' = "done"
    /\ UNCHANGED <<inputs, idx, combined_content, calls, outstanding,
                   result, final_report>>

----------------------------------------------------------------------------
(* The two stages: each kickoff() is one blocking call *)

NotPassed == "(not passed)"

\* planner Agent, plan Task and Crew
PlanRequest ==
    [stage |-> "plan", inputs |-> <<combined_content>>, key |-> openai_api_key]

\* writer Agent, write_task and writer_crew
WriteRequest == [stage |-> "write", inputs |-> <<>>, key |-> NotPassed]

PlanOutputs == {"plan-1", "plan-2"}

WriterOutputs == {"article"}

Kickoff(request, waiting) ==
    /\ calls' = Append(calls, request)
    /\ outstanding' = outstanding + 1
    /\ pc' = waiting

\* result = crew.kickoff(), the call
PlanKickoff ==
    /\ pc = "plan"
    /\ Kickoff(PlanRequest, "planning")
    /\ UNCHANGED <<inputs, idx, combined_content, ui, result, final_report>>

\* result = crew.kickoff(), the return
PlanReturn ==
    /\ pc = "planning"
    /\ \E out \in PlanOutputs : result' = out
    /\ outstanding' = outstanding - 1
    /\ pc' = "write"
    /\ UNCHANGED <<inputs, idx, combined_content, ui, calls, final_report>>

\* A plausible slip: a failed stage is tried again.
RetryAfterFailure(stage) == stage

\* A plausible slip: the failure is caught and the script carries on.
ContinueAfterFailure(stage) == IF stage = "plan" THEN "write" ELSE "report"

\* where a run goes when a kickoff() has raised: nothing catches it
AfterFailure(stage) == "crashed"

\* crew.kickoff() raises
PlanFailure ==
    /\ pc = "planning"
    /\ outstanding' = outstanding - 1
    /\ ui' = Append(ui, ExceptionBox)
    /\ pc' = AfterFailure("plan")
    /\ UNCHANGED <<inputs, idx, combined_content, calls, result, final_report>>

\* final_report = writer_crew.kickoff(), the call
WriteKickoff ==
    /\ pc = "write"
    /\ Kickoff(WriteRequest, "writing")
    /\ UNCHANGED <<inputs, idx, combined_content, ui, result, final_report>>

\* final_report = writer_crew.kickoff(), the return
WriteReturn ==
    /\ pc = "writing"
    /\ \E out \in WriterOutputs : final_report' = out
    /\ outstanding' = outstanding - 1
    /\ pc' = "report"
    /\ UNCHANGED <<inputs, idx, combined_content, ui, calls, result>>

\* writer_crew.kickoff() raises
WriteFailure ==
    /\ pc = "writing"
    /\ outstanding' = outstanding - 1
    /\ ui' = Append(ui, ExceptionBox)
    /\ pc' = AfterFailure("write")
    /\ UNCHANGED <<inputs, idx, combined_content, calls, result, final_report>>

----------------------------------------------------------------------------
(* The report, the Word document and the download button *)

\* st.success(...); st.markdown(final_report)
ShowReport ==
    /\ pc = "report"
    /\ ui' = Append(ui, SuccessMessage)
    /\ pc' = "render"
    /\ UNCHANGED <<inputs, idx, combined_content, calls, outstanding, result,
                   final_report>>

\* The document is built and saved to the buffer, and the button is shown.
OfferDownload ==
    /\ pc = "render"
    /\ ui' = Append(ui, DownloadButton)
    /\ pc' = "done"
    /\ UNCHANGED <<inputs, idx, combined_content, calls, outstanding, result,
                   final_report>>

\* Building or saving the document raises.
RenderFailure ==
    /\ pc = "render"
    /\ Crash
    /\ UNCHANGED <<inputs, idx, combined_content, calls, outstanding, result,
                   final_report>>

----------------------------------------------------------------------------
Next ==
    \/ SkipInvalidDate
    \/ SkipOutOfRange
    \/ IncludeFile
    \/ TxtDecodeError
    \/ DocxValueError
    \/ DocxFault
    \/ EnterPipeline
    \/ WarnNoEligible
    \/ PlanKickoff
    \/ PlanReturn
    \/ PlanFailure
    \/ WriteKickoff
    \/ WriteReturn
    \/ WriteFailure
    \/ ShowReport
    \/ OfferDownload
    \/ RenderFailure

Spec == Init /\ [][Next]_vars

----------------------------------------------------------------------------
(* Vocabulary of the properties *)

Range(q) == {q[k] : k \in DOMAIN q}

FileCount == Len(uploaded_files)

\* Files whose iteration of the loop is over.
Processed == 1..(idx - 1)

DateOf(i) == FileDate(uploaded_files[i])

ValidPrefix(i) == DateOf(i) # NoDate

WithinWindow(i) == start_date <= DateOf(i) /\ DateOf(i) <= end_date

Readable(i) == uploaded_files[i].data # Unreadable

\* combined_content holds a begin marker for position i.
HasBlock(i) ==
    \E k \in DOMAIN combined_content :
        combined_content[k].k = "begin" /\ combined_content[k].i = i

SkippedAsInvalidDate(i) ==
    [kind |-> "warning_invalid_date", name |-> uploaded_files[i].name] \in Range(ui)

Shown(kind) == \E k \in DOMAIN ui : ui[k].kind = kind

StageCalls(stage) == {k \in DOMAIN calls : calls[k].stage = stage}

\* No uploaded file has a date inside the window.
NoFileInWindow == \A i \in 1..FileCount : ~(ValidPrefix(i) /\ WithinWindow(i))

\* What the loop should have built from the first n files, given which of
\* them have a block.
RECURSIVE BlocksInUploadOrder(_)
BlocksInUploadOrder(n) ==
    IF n = 0 THEN <<>>
    ELSE BlocksInUploadOrder(n - 1) \o
         ( IF HasBlock(n)
           THEN << [k |-> "begin", i |-> n, name |-> uploaded_files[n].name, text |-> ""],
                   [k |-> "content", i |-> 0, name |-> <<>>, text |-> uploaded_files[n].data],
                   [k |-> "end", i |-> n, name |-> uploaded_files[n].name, text |-> ""] >>
           ELSE <<>> )

----------------------------------------------------------------------------
(* C1: every file with a parseable date prefix has its block in the        *)
(* combined content if and only if start <= date <= end.                   *)
C1_IncludedIffInWindow ==
    \A i \in Processed :
        ValidPrefix(i) => (HasBlock(i) <=> WithinWindow(i))

(* C2: when no uploaded file's date lies inside the window, the run makes  *)
(* no call to the generation collaborator and ends with the "no eligible   *)
(* content" warning.                                                       *)
C2_NoEligibleNoGeneration ==
    NoFileInWindow =>
        /\ calls = <<>>
        /\ outstanding = 0
        /\ combined_content = <<>>
        /\ pc \in {"aggregate", "done"}
        /\ pc = "done" =>
              /\ ui # <<>>
              /\ ui[Len(ui)] = [kind |-> "warning_no_eligible", name |-> <<>>]
              /\ ~Shown("success")
              /\ ~Shown("download_button")

C2_Witness ==
    /\ pc = "done"
    /\ start_date > end_date
    /\ FileCount >= 1
    /\ \A i \in 1..FileCount :
          ValidPrefix(i) /\ end_date <= DateOf(i) /\ DateOf(i) <= start_date
    /\ Shown("warning_no_eligible")

(* C3: in a run whose API key is empty no call to the generation           *)
(* collaborator is made.                                                   *)
C3_NoCallWithoutKey == openai_api_key = "" => calls = <<>>

(* C4: the write-stage call is issued only after the plan-stage call has   *)
(* returned successfully, at most one call is outstanding, and each stage  *)
(* is called at most once in a run.                                        *)
C4_StagesInSequence ==
    /\ outstanding \in {0, 1}
    /\ Cardinality(StageCalls("plan")) <= 1
    /\ Cardinality(StageCalls("write")) <= 1
    /\ \A k \in StageCalls("write") :
          /\ result \in PlanOutputs
          /\ \E j \in StageCalls("plan") : j < k
    /\ outstanding = 1 =>
          /\ calls # <<>>
          /\ calls[Len(calls)].stage = "plan" => result = "none"
          /\ calls[Len(calls)].stage = "write" => final_report = "none"

C4_Witness == Len(calls) = 2 /\ outstanding = 1 /\ result \in PlanOutputs

(* C5: the plan-stage request carries the full combined content and the    *)
(* write-stage request carries the text returned by the plan stage.        *)
C5_StagesChained ==
    \A k \in DOMAIN calls :
        /\ calls[k].stage = "plan" => calls[k].inputs = <<combined_content>>
        /\ calls[k].stage = "write" => calls[k].inputs = <<result>>

(* C6: a file whose prefix is not a valid date is left out and reported as *)
(* skipped, raises no uncaught fault and does not abort the batch: every   *)
(* other file is still filtered and, if in range, included.                *)
C6_InvalidNameSkippedBatchContinues ==
    /\ \A i \in Processed :
          ~ValidPrefix(i) => ~HasBlock(i) /\ SkippedAsInvalidDate(i)
    /\ (pc = "crashed" /\ idx <= FileCount) => ValidPrefix(idx)
    /\ \A i \in Processed, j \in Processed :
          (~ValidPrefix(i) /\ ValidPrefix(j) /\ WithinWindow(j)) => HasBlock(j)

(* C7: a failure of the plan stage or of the write stage aborts the run:   *)
(* no later stage is called, no success message is shown, no download is   *)
(* offered; the download is offered only when both stages have returned    *)
(* and the success message came first.                                     *)
C7_FailureAbortsRun ==
    /\ Shown("exception") =>
          /\ pc = "crashed"
          /\ ui[Len(ui)].kind = "exception"
          /\ outstanding = 0
          /\ ~Shown("download_button")
    /\ (Shown("exception") /\ calls # <<>> /\ result = "none") =>
          /\ Len(calls) = 1
          /\ ~Shown("success")
    /\ (Shown("exception") /\ Len(calls) = 2 /\ final_report = "none") =>
          ~Shown("success")
    /\ Shown("download_button") =>
          /\ result \in PlanOutputs
          /\ final_report \in WriterOutputs
          /\ \E a, b \in DOMAIN ui :
                a < b /\ ui[a].kind = "success" /\ ui[b].kind = "download_button"

C7_Witness ==
    /\ pc = "crashed"
    /\ Len(calls) = 1
    /\ result = "none"
    /\ Shown("exception")

C9_DecodeFailureReported ==
    \A i \in Processed :
        (ValidPrefix(i) /\ WithinWindow(i) /\ ~Readable(i)) => ~SkippedAsInvalidDate(i)

====
